---- MODULE Spec2Model ----
(***************************************************************************)
(* Model of go/internal/tx_parser/raydium.go: RaydiumParser.               *)
(* ParseInstruction walks the inner-instruction groups of one outer        *)
(* instruction, decodes token transfers, pairs them and builds SwapInfo    *)
(* records.  Go slices are modelled as TLA+ sequences (index i in Go is    *)
(* i+1 here); the account table keeps Go's 0-based indices because         *)
(* instructions and balances carry indices into it.                        *)
(***************************************************************************)
EXTENDS Integers, Sequences, FiniteSets, TLC

VARIABLES ctx, ctx0, procs, instructionIndex, pc, gi, ii,
          currentTransfers, currentSrc, swaps, result, out, panicAt,
          steps, calls, writes

vars == <<ctx, ctx0, procs, instructionIndex, pc, gi, ii,
          currentTransfers, currentSrc, swaps, result, out, panicAt,
          steps, calls, writes>>

(* ------------------------------ bounds --------------------------------- *)
MaxInstrs == 4
MaxGroups == 2
MaxPre == 2
MaxPost == 1
MaxSpare == 1

(* --------------------------- keys and tables --------------------------- *)
ZeroKey == "Zero"
TokenProgramID == "TokenProgram"
Token2022ProgramID == "Token2022"
SwapTypeRaydium == "Raydium"

KeyList == <<"User", "UserA", "VaultA", "MintA", "MintB",
             "TokenProgram", "Token2022", "UserB", "VaultB">>
AccountKeys0 == [i \in 0..(Len(KeyList) - 1) |-> KeyList[i + 1]]
\* The first index outside the account table.
BadIndex == Len(KeyList)

Procs == {1, 2}

Range(s) == {s[k] : k \in DOMAIN s}
SeqsUpTo(S, n) == UNION {[1..k -> S] : k \in 0..n}
Min(S) == CHOOSE x \in S : \A y \in S : x <= y

(* ------------------------------ helpers -------------------------------- *)
ToUint16(i) == i % 65536

RECURSIVE LittleEndianUint64(_)
LittleEndianUint64(bytes) ==
  IF bytes = <<>> THEN 0
  ELSE Head(bytes) + 256 * LittleEndianUint64(Tail(bytes))

GetMintDecimals(c, mint) ==
  IF mint \in DOMAIN c.MintDecimals THEN c.MintDecimals[mint] ELSE 0

PreTokenBalances(c) == SubSeq(c.PreStore, 1, c.PreLen)

(* --------------------------- classifiers ------------------------------- *)
isRaydiumTransfer(instr, accountKeys) ==
  IF Len(instr.Accounts) < 3 \/ Len(instr.Data) < 9 THEN "false"
  ELSE IF instr.ProgramIDIndex \notin DOMAIN accountKeys THEN "panic"
  ELSE IF accountKeys[instr.ProgramIDIndex] # TokenProgramID THEN "false"
  ELSE IF instr.Data[1] = 3 THEN "true" ELSE "false"

isRaydiumTransferChecked(instr, accountKeys) ==
  IF Len(instr.Accounts) < 4 \/ Len(instr.Data) < 9 THEN "false"
  ELSE IF instr.ProgramIDIndex \notin DOMAIN accountKeys THEN "panic"
  ELSE IF /\ accountKeys[instr.ProgramIDIndex] # TokenProgramID
          /\ accountKeys[instr.ProgramIDIndex] # Token2022ProgramID THEN "false"
  ELSE IF instr.Data[1] = 12 THEN "true" ELSE "false"

(* --------------------------- mint resolver ----------------------------- *)
\* Mutation: the post-execution balances are scanned before the pre ones.
AppendBalances_PostFirst(c) ==
  [balances |-> c.PostTokenBalances \o SubSeq(c.PreStore, 1, c.PreLen),
   store |-> c.PreStore, wrote |-> {}]

\* append(ctx.Meta.PreTokenBalances, ctx.Meta.PostTokenBalances...): when the
\* pre-balance slice has enough spare capacity the post entries are stored
\* into its backing array, otherwise a fresh array is allocated.
AppendBalances(c) ==
  LET post == c.PostTokenBalances
      n == Len(post)
      cap == Len(c.PreStore)
  IN  IF n = 0 \/ c.PreLen + n > cap
      THEN [balances |-> PreTokenBalances(c) \o post,
            store |-> c.PreStore, wrote |-> {}]
      ELSE [balances |-> PreTokenBalances(c) \o post,
            store |-> [k \in 1..cap |->
                        IF k \in (c.PreLen + 1)..(c.PreLen + n)
                        THEN post[k - c.PreLen] ELSE c.PreStore[k]],
            wrote |-> (c.PreLen + 1)..(c.PreLen + n)]

RECURSIVE ScanBalances(_, _, _, _)
ScanBalances(balances, source, dest, accountKeys) ==
  IF balances = <<>> THEN [panic |-> FALSE, mint |-> ZeroKey]
  ELSE IF Head(balances).AccountIndex \notin DOMAIN accountKeys
       THEN [panic |-> TRUE, mint |-> ZeroKey]
  ELSE IF \/ accountKeys[Head(balances).AccountIndex] = source
          \/ accountKeys[Head(balances).AccountIndex] = dest
       THEN [panic |-> FALSE, mint |-> Head(balances).Mint]
  ELSE ScanBalances(Tail(balances), source, dest, accountKeys)

findTokenMint(source, dest, c) ==
  LET a == AppendBalances(c)
      r == ScanBalances(a.balances, source, dest, c.AccountKeys)
  IN  [panic |-> r.panic, mint |-> r.mint, store |-> a.store, wrote |-> a.wrote]

(* -------------------------- transfer decoder --------------------------- *)
Outcome(kind, at, tok, store, wrote) ==
  [kind |-> kind, at |-> at, tok |-> tok, store |-> store, wrote |-> wrote]

NoToken == [Mint |-> ZeroKey, Amount |-> 0, Decimals |-> 0]

processTransfer(instr, c) ==
  IF Len(instr.Data) < 9
  THEN Outcome("err", "none", NoToken, c.PreStore, {})
  ELSE IF \/ Len(instr.Accounts) < 2
          \/ instr.Accounts[1] \notin DOMAIN c.AccountKeys
          \/ instr.Accounts[2] \notin DOMAIN c.AccountKeys
  THEN Outcome("panic", "processTransfer", NoToken, c.PreStore, {})
  ELSE LET amount == LittleEndianUint64(SubSeq(instr.Data, 2, 9))
           r == findTokenMint(c.AccountKeys[instr.Accounts[1]],
                              c.AccountKeys[instr.Accounts[2]], c)
       IN  IF r.panic
           THEN Outcome("panic", "findTokenMint", NoToken, r.store, r.wrote)
           ELSE IF r.mint = ZeroKey
           THEN Outcome("err", "none", NoToken, r.store, r.wrote)
           ELSE Outcome("ok", "none",
                        [Mint |-> r.mint, Amount |-> amount,
                         Decimals |-> GetMintDecimals(c, r.mint)],
                        r.store, r.wrote)

processTransferChecked(instr, c) ==
  IF Len(instr.Data) < 9
  THEN Outcome("err", "none", NoToken, c.PreStore, {})
  ELSE IF \/ Len(instr.Accounts) < 2
          \/ instr.Accounts[2] \notin DOMAIN c.AccountKeys
  THEN Outcome("panic", "processTransferChecked", NoToken, c.PreStore, {})
  ELSE LET amount == LittleEndianUint64(SubSeq(instr.Data, 2, 9))
           mint == c.AccountKeys[instr.Accounts[2]]
       IN  Outcome("ok", "none",
                   [Mint |-> mint, Amount |-> amount,
                    Decimals |-> GetMintDecimals(c, mint)],
                   c.PreStore, {})

\* The switch of ParseInstruction: "nil" is (transfer, err) = (nil, nil).
DecodeInner(instr, c) ==
  LET m1 == isRaydiumTransfer(instr, c.AccountKeys)
      m2 == isRaydiumTransferChecked(instr, c.AccountKeys)
  IN  IF m1 = "panic"
      THEN Outcome("panic", "isRaydiumTransfer", NoToken, c.PreStore, {})
      ELSE IF m1 = "true" THEN processTransfer(instr, c)
      ELSE IF m2 = "panic"
      THEN Outcome("panic", "isRaydiumTransferChecked", NoToken, c.PreStore, {})
      ELSE IF m2 = "true" THEN processTransferChecked(instr, c)
      ELSE Outcome("nil", "none", NoToken, c.PreStore, {})

(* --------------------------- swap assembler ---------------------------- *)
RECURSIVE OwnerIsSigner(_, _)
OwnerIsSigner(owner, signers) ==
  IF signers = <<>> THEN FALSE
  ELSE IF owner = Head(signers) THEN TRUE
  ELSE OwnerIsSigner(owner, Tail(signers))

\* The loop over ctx.Meta.PreTokenBalances: the outer break leaves the loop
\* at the first balance whose mint is transfer1's mint.
RECURSIVE FirstTransferFromSigner(_, _, _)
FirstTransferFromSigner(balances, mint, signers) ==
  IF balances = <<>> THEN FALSE
  ELSE IF Head(balances).Mint = mint
       THEN OwnerIsSigner(Head(balances).Owner, signers)
  ELSE FirstTransferFromSigner(Tail(balances), mint, signers)

\* Mutation: orientation also consults the post-execution balances.
OrientationBalances_WithPost(c) == PreTokenBalances(c) \o c.PostTokenBalances

OrientationBalances(c) == PreTokenBalances(c)

Orient(transfer1, transfer2, c) ==
  IF FirstTransferFromSigner(OrientationBalances(c), transfer1.Mint, c.Signers)
  THEN [Protocol |-> SwapTypeRaydium, TokenIn |-> transfer1, TokenOut |-> transfer2]
  ELSE [Protocol |-> SwapTypeRaydium, TokenIn |-> transfer2, TokenOut |-> transfer1]

NoSwap == [Protocol |-> "none", TokenIn |-> NoToken, TokenOut |-> NoToken]

\* Mutation: the degenerate-pair test is missing.
SameMint_Never(transfer1, transfer2) == FALSE

SameMint(transfer1, transfer2) == transfer1.Mint = transfer2.Mint

buildSwapInfo(transfer1, transfer2, c) ==
  IF SameMint(transfer1, transfer2)
  THEN [err |-> TRUE, swap |-> NoSwap]
  ELSE [err |-> FALSE, swap |-> Orient(transfer1, transfer2, c)]

(* --------------------------- transfer pairer --------------------------- *)
\* Mutation: the accumulator outlives the group.
FreshTransfers_Keep(previous) == previous

\* var currentTransfers []TokenInfo, declared inside the group loop.
FreshTransfers(previous) == <<>>

\* Mutation: the second transfer of a rejected pair stays pending.
DropRejected_KeepSecond(cur) == Tail(cur)

\* currentTransfers = currentTransfers[2:] after a rejected pair.
DropRejected(cur) == SubSeq(cur, 3, Len(cur))

\* Mutation: the window slides by one transfer instead of two.
DropPaired_Overlap(cur) == Tail(cur)

\* currentTransfers = currentTransfers[2:] after an assembled pair.
DropPaired(cur) == SubSeq(cur, 3, Len(cur))

\* Mutation: the empty-result test is missing.
ReturnValue_NoCheck(sw) == [err |-> FALSE, swaps |-> sw]

\* if len(swaps) == 0 { return nil, error }; return swaps, nil
ReturnValue(sw) ==
  IF Len(sw) = 0 THEN [err |-> TRUE, swaps |-> <<>>]
  ELSE [err |-> FALSE, swaps |-> sw]

Groups == ctx.InnerInstructions

\* for _, innerSet := range ctx.Meta.InnerInstructions, with the tag test.
NextGroup(p) ==
  /\ p \in procs
  /\ pc[p] = "groups"
  /\ IF gi[p] > Len(Groups)
     THEN /\ pc' = [pc EXCEPT ![p] = "ret"]
          /\ UNCHANGED <<gi, ii, currentTransfers, currentSrc>>
     ELSE IF Groups[gi[p]].Index = ToUint16(instructionIndex[p])
     THEN /\ pc' = [pc EXCEPT ![p] = "inner"]
          /\ ii' = [ii EXCEPT ![p] = 1]
          /\ currentTransfers' = [currentTransfers EXCEPT ![p] = FreshTransfers(@)]
          /\ currentSrc' = [currentSrc EXCEPT ![p] = FreshTransfers(@)]
          /\ UNCHANGED gi
     ELSE /\ gi' = [gi EXCEPT ![p] = @ + 1]
          /\ UNCHANGED <<pc, ii, currentTransfers, currentSrc>>
  /\ UNCHANGED <<ctx, ctx0, procs, instructionIndex, swaps, result, out,
                 panicAt, steps, calls, writes>>

\* One iteration of the loop over innerSet.Instructions (or its exit).
InnerStep(p) ==
  /\ p \in procs
  /\ pc[p] = "inner"
  /\ IF ii[p] > Len(Groups[gi[p]].Instructions)
     THEN /\ gi' = [gi EXCEPT ![p] = @ + 1]
          /\ pc' = [pc EXCEPT ![p] = "groups"]
          /\ UNCHANGED <<ctx, ii, currentTransfers, currentSrc, swaps, result,
                         panicAt, steps, calls, writes>>
     ELSE LET instr == Groups[gi[p]].Instructions[ii[p]]
              d == DecodeInner(instr, ctx)
              here == <<gi[p], ii[p]>>
              acc == Append(currentTransfers[p], d.tok)
              accSrc == Append(currentSrc[p], here)
              c2 == [ctx EXCEPT !.PreStore = d.store]
              b == buildSwapInfo(acc[1], acc[2], c2)
          IN  /\ ctx' = c2
              /\ writes' = [writes EXCEPT ![p] = @ \cup d.wrote]
              /\ steps' = [steps EXCEPT ![p] =
                             Append(@, [g |-> gi[p], i |-> ii[p],
                                        kind |-> d.kind, tok |-> d.tok])]
              /\ IF d.kind = "panic"
                 THEN /\ pc' = [pc EXCEPT ![p] = "done"]
                      /\ result' = [result EXCEPT ![p] = "panic"]
                      /\ panicAt' = [panicAt EXCEPT ![p] = d.at]
                      /\ UNCHANGED <<gi, ii, currentTransfers, currentSrc,
                                     swaps, calls>>
                 ELSE /\ ii' = [ii EXCEPT ![p] = @ + 1]
                      /\ UNCHANGED <<gi, pc, result, panicAt>>
                      /\ IF d.kind # "ok"
                         THEN UNCHANGED <<currentTransfers, currentSrc, swaps, calls>>
                         ELSE IF Len(acc) # 2
                         THEN /\ currentTransfers' = [currentTransfers EXCEPT ![p] = acc]
                              /\ currentSrc' = [currentSrc EXCEPT ![p] = accSrc]
                              /\ UNCHANGED <<swaps, calls>>
                         ELSE /\ calls' = [calls EXCEPT ![p] =
                                   Append(@, [g |-> gi[p],
                                              src1 |-> accSrc[1], src2 |-> accSrc[2],
                                              first |-> acc[1], second |-> acc[2],
                                              err |-> b.err, swap |-> b.swap])]
                              /\ IF b.err
                                 THEN /\ currentTransfers' =
                                           [currentTransfers EXCEPT ![p] = DropRejected(acc)]
                                      /\ currentSrc' =
                                           [currentSrc EXCEPT ![p] = DropRejected(accSrc)]
                                      /\ UNCHANGED swaps
                                 ELSE /\ swaps' = [swaps EXCEPT ![p] = Append(@, b.swap)]
                                      /\ currentTransfers' =
                                           [currentTransfers EXCEPT ![p] = DropPaired(acc)]
                                      /\ currentSrc' =
                                           [currentSrc EXCEPT ![p] = DropPaired(accSrc)]
  /\ UNCHANGED <<ctx0, procs, instructionIndex, out>>

Return(p) ==
  /\ p \in procs
  /\ pc[p] = "ret"
  /\ pc' = [pc EXCEPT ![p] = "done"]
  /\ result' = [result EXCEPT ![p] =
                  IF ReturnValue(swaps[p]).err THEN "error" ELSE "ok"]
  /\ out' = [out EXCEPT ![p] = ReturnValue(swaps[p]).swaps]
  /\ UNCHANGED <<ctx, ctx0, procs, instructionIndex, gi, ii, currentTransfers,
                 currentSrc, swaps, panicAt, steps, calls, writes>>

Next ==
  \/ \E p \in Procs : NextGroup(p)
  \/ \E p \in Procs : InnerStep(p)
  \/ \E p \in Procs : Return(p)

(* ------------------------------ inputs --------------------------------- *)
Data9(op, b1, b2) == <<op, b1, b2, 0, 0, 0, 0, 0, 0>>

PlainA == [ProgramIDIndex |-> 5, Accounts |-> <<1, 2, 0>>, Data |-> Data9(3, 100, 0)]
CheckedA == [ProgramIDIndex |-> 5, Accounts |-> <<1, 3, 2, 0>>, Data |-> Data9(12, 44, 1)]
CheckedB == [ProgramIDIndex |-> 6, Accounts |-> <<7, 4, 8, 0>>, Data |-> Data9(12, 250, 0)]
Short == [ProgramIDIndex |-> BadIndex, Accounts |-> <<1, 2>>, Data |-> <<3>>]
BadProgram == [ProgramIDIndex |-> BadIndex, Accounts |-> <<1, 2, 0>>, Data |-> Data9(3, 1, 0)]
BadAccount == [ProgramIDIndex |-> 5, Accounts |-> <<BadIndex, 2, 0>>, Data |-> Data9(3, 1, 0)]

CheckedTemplates == {CheckedA, CheckedB}
Templates == {PlainA, CheckedA, CheckedB, Short, BadProgram, BadAccount}
Tags == {0, 1}

UserHoldsA == [AccountIndex |-> 1, Mint |-> "MintA", Owner |-> "User"]
VaultHoldsA == [AccountIndex |-> 2, Mint |-> "MintA", Owner |-> "Pool"]
UserHoldsB == [AccountIndex |-> 7, Mint |-> "MintB", Owner |-> "User"]
VaultAsB == [AccountIndex |-> 2, Mint |-> "MintB", Owner |-> "Pool"]
ZeroMint == [AccountIndex |-> 1, Mint |-> ZeroKey, Owner |-> "User"]
Snapshots == {UserHoldsA, VaultHoldsA, UserHoldsB, VaultAsB, ZeroMint}

\* Content of the unused capacity behind the pre-balance slice.
ZeroBalance == [AccountIndex |-> 0, Mint |-> ZeroKey, Owner |-> ZeroKey]

SignerLists == {<<"Payer", "User">>, <<"Payer">>}
MintDecimals0 == [m \in {"MintA", "MintB"} |-> IF m = "MintA" THEN 6 ELSE 9]

Context(groups, pre, spare, post, signers) ==
  [AccountKeys |-> AccountKeys0,
   InnerInstructions |-> groups,
   PreStore |-> pre \o [k \in 1..spare |-> ZeroBalance],
   PreLen |-> Len(pre),
   PostTokenBalances |-> post,
   Signers |-> signers,
   MintDecimals |-> MintDecimals0]

InitCalls(active) ==
  /\ procs = active
  /\ ctx0 = ctx
  /\ pc = [p \in Procs |-> IF p \in active THEN "groups" ELSE "done"]
  /\ gi = [p \in Procs |-> 1]
  /\ ii = [p \in Procs |-> 1]
  /\ currentTransfers = [p \in Procs |-> <<>>]
  /\ currentSrc = [p \in Procs |-> <<>>]
  /\ swaps = [p \in Procs |-> <<>>]
  /\ result = [p \in Procs |-> "none"]
  /\ out = [p \in Procs |-> <<>>]
  /\ panicAt = [p \in Procs |-> "none"]
  /\ steps = [p \in Procs |-> <<>>]
  /\ calls = [p \in Procs |-> <<>>]
  /\ writes = [p \in Procs |-> {}]

Group(tag, instrs) == [Index |-> tag, Instructions |-> instrs]

SingleGroupLists ==
  {<<>>} \cup {<<Group(t, s)>> : t \in Tags, s \in SeqsUpTo(Templates, MaxInstrs)}

\* All ways to cut a sequence of instructions into n groups, each tagged.
RECURSIVE Cuts(_, _)
Cuts(s, n) ==
  IF n = 1 THEN {<<Group(t, s)>> : t \in Tags}
  ELSE UNION {{<<Group(t, SubSeq(s, 1, k))>> \o rest :
                 t \in Tags, rest \in Cuts(SubSeq(s, k + 1, Len(s)), n - 1)}
              : k \in 0..Len(s)}

MultiGroupLists ==
  UNION {Cuts(s, n) : s \in SeqsUpTo(CheckedTemplates, MaxInstrs), n \in 2..MaxGroups}

\* One call.  Either a single group of arbitrary nested instructions, with
\* balances that resolve the plain transfer's mint or do not, or several
\* groups of checked transfers.
Init ==
  /\ \/ \E groups \in SingleGroupLists, pre \in {<<UserHoldsA>>, <<>>} :
          ctx = Context(groups, pre, 0, <<>>, <<"User">>)
     \/ \E groups \in MultiGroupLists :
          ctx = Context(groups, <<UserHoldsA>>, 0, <<>>, <<"User">>)
  /\ \E idx \in Tags : instructionIndex = [p \in Procs |-> idx]
  /\ InitCalls({1})

Spec == Init /\ [][Next]_vars

\* One call on a two-transfer group; balances and signers vary.
InitBal ==
  /\ \E instrs \in [1..2 -> {PlainA, CheckedB}],
        pre \in SeqsUpTo(Snapshots, MaxPre),
        post \in SeqsUpTo(Snapshots, MaxPost),
        spare \in {0, MaxSpare},
        signers \in SignerLists :
        ctx = Context(<<Group(0, instrs)>>, pre, spare, post, signers)
  /\ instructionIndex = [p \in Procs |-> 0]
  /\ InitCalls({1})

SpecBal == InitBal /\ [][Next]_vars

\* Two calls on one TransactionContext, for outer instructions 0 and 1.
InitConc ==
  /\ \E g0, g1 \in {<<PlainA>>, <<PlainA, CheckedB>>, <<CheckedB, PlainA>>},
        pre \in {<<>>, <<UserHoldsA>>},
        post \in SeqsUpTo({UserHoldsA, VaultAsB}, MaxPost),
        spare \in 0..MaxSpare :
        ctx = Context(<<Group(0, g0), Group(1, g1)>>, pre, spare, post, <<"User">>)
  /\ \E i1, i2 \in Tags : instructionIndex = [p \in Procs |-> IF p = 1 THEN i1 ELSE i2]
  /\ InitCalls({1, 2})

SpecConc == InitConc /\ [][Next]_vars

(* ------------------------------ claims --------------------------------- *)
Matching(p, g) == Groups[g].Index = ToUint16(instructionIndex[p])
DecodedIn(p, g) == SelectSeq(steps[p], LAMBDA e : e.g = g /\ e.kind = "ok")
CallsIn(p, g) == SelectSeq(calls[p], LAMBDA e : e.g = g)
Returned(p) == pc[p] = "done" /\ result[p] \in {"ok", "error"}
CallerPre == SubSeq(ctx0.PreStore, 1, ctx0.PreLen)
Forward(e) == [Protocol |-> SwapTypeRaydium, TokenIn |-> e.first, TokenOut |-> e.second]
Reverse(e) == [Protocol |-> SwapTypeRaydium, TokenIn |-> e.second, TokenOut |-> e.first]

\* C1: in every matching group, buildSwapInfo has been invoked exactly on the
\* consecutive non-overlapping pairs (t1,t2), (t3,t4), ... of the transfers
\* decoded so far in that group, in that order; an odd last one is in no pair.
C1_ConsecutivePairs ==
  \A p \in procs : \A g \in 1..Len(Groups) :
    Matching(p, g) =>
      LET D == DecodedIn(p, g)
          C == CallsIn(p, g)
      IN  /\ Len(C) = Len(D) \div 2
          /\ \A k \in 1..Len(C) :
               /\ C[k].src1 = <<g, D[2 * k - 1].i>>
               /\ C[k].src2 = <<g, D[2 * k].i>>
               /\ C[k].first = D[2 * k - 1].tok
               /\ C[k].second = D[2 * k].tok

\* Three transfers decoded around a skipped unresolved plain transfer: one
\* pair was assembled and the third transfer was dropped at the group's end.
C1_Witness ==
  /\ Returned(1)
  /\ \E g \in 1..Len(Groups) :
       /\ Matching(1, g)
       /\ Len(DecodedIn(1, g)) = 3
       /\ Len(CallsIn(1, g)) = 1
       /\ \E k \in DOMAIN steps[1] :
            /\ steps[1][k].g = g /\ steps[1][k].kind = "err"
            /\ steps[1][k].i < DecodedIn(1, g)[2].i

MintsOf(seq) == [k \in DOMAIN seq |-> seq[k].tok.Mint]

\* C2: no transfer of a rejected pair takes part in any other pair, and a
\* call whose only decoded transfers are A, A, B in one group returns the
\* error with no swap.
C2_RejectedPairDropped ==
  \A p \in procs :
    /\ \A k, m \in DOMAIN calls[p] :
         (calls[p][k].err /\ m # k) =>
           {calls[p][k].src1, calls[p][k].src2}
             \cap {calls[p][m].src1, calls[p][m].src2} = {}
    /\ \A g \in 1..Len(Groups) :
         ( /\ Returned(p)
           /\ MintsOf(DecodedIn(p, g)) = <<"MintA", "MintA", "MintB">>
           /\ \A k \in DOMAIN steps[p] :
                steps[p][k].kind = "ok" => steps[p][k].g = g )
         => (result[p] = "error" /\ out[p] = <<>> /\ swaps[p] = <<>>)

C2_Witness ==
  /\ Returned(1)
  /\ result[1] = "error"
  /\ \E g \in 1..Len(Groups) :
       /\ MintsOf(DecodedIn(1, g)) = <<"MintA", "MintA", "MintB">>
       /\ Len(calls[1]) = 1
       /\ calls[1][1].err

\* C3: every assembled or returned SwapInfo has different mints on its two
\* sides, and a pair with equal mints is rejected.
C3_NoDegenerateSwap ==
  \A p \in procs :
    /\ \A k \in DOMAIN swaps[p] : swaps[p][k].TokenIn.Mint # swaps[p][k].TokenOut.Mint
    /\ \A k \in DOMAIN out[p] : out[p][k].TokenIn.Mint # out[p][k].TokenOut.Mint
    /\ \A k \in DOMAIN calls[p] :
         calls[p][k].first.Mint = calls[p][k].second.Mint => calls[p][k].err

C3_Witness ==
  /\ Returned(1)
  /\ result[1] = "ok"
  /\ Len(out[1]) = 1
  /\ \E k \in DOMAIN calls[1] :
       calls[1][k].err /\ calls[1][k].first.Mint = calls[1][k].second.Mint

\* C4: a non-degenerate pair is oriented by the first pre-execution balance
\* whose mint is the first transfer's mint: first is TokenIn when that balance
\* exists and its owner is a signer, second is TokenIn in every other case;
\* both transfers are carried unchanged and post balances play no part.
FirstMintMatch(e) == {j \in DOMAIN CallerPre : CallerPre[j].Mint = e.first.Mint}
C4_Orientation ==
  \A p \in procs : \A k \in DOMAIN calls[p] :
    LET e == calls[p][k]
        M == FirstMintMatch(e)
    IN  ~e.err =>
          IF M # {} /\ CallerPre[Min(M)].Owner \in Range(ctx0.Signers)
          THEN e.swap = Forward(e)
          ELSE e.swap = Reverse(e)

\* No pre balance carries the first mint while a post balance does, with a
\* signer as owner: the pair is still reversed.
C4_Witness ==
  \E k \in DOMAIN calls[1] :
    LET e == calls[1][k]
    IN  /\ ~e.err
        /\ FirstMintMatch(e) = {}
        /\ \E j \in DOMAIN ctx0.PostTokenBalances :
             /\ ctx0.PostTokenBalances[j].Mint = e.first.Mint
             /\ ctx0.PostTokenBalances[j].Owner \in Range(ctx0.Signers)
        /\ e.swap = Reverse(e)
        /\ Returned(1)

\* C5: whenever some pre-execution balance has the first transfer's mint and
\* a signer as owner, the assembled swap has TokenIn = first, TokenOut =
\* second, whatever other pre-execution balances are present.
C5_AnySignerBalance ==
  \A p \in procs : \A k \in DOMAIN calls[p] :
    LET e == calls[p][k]
    IN  ( /\ ~e.err
          /\ \E j \in DOMAIN CallerPre :
               /\ CallerPre[j].Mint = e.first.Mint
               /\ CallerPre[j].Owner \in Range(ctx0.Signers) )
        => e.swap = Forward(e)

\* C6: a call that returns yields the error with no list exactly when no
\* pair of a matching group was assembled, and otherwise a list of at least
\* one SwapInfo; an empty list with a nil error is never returned.
Assembled(p) ==
  {k \in DOMAIN calls[p] : ~calls[p][k].err /\ Matching(p, calls[p][k].g)}
C6_NoSwapsFound ==
  \A p \in procs :
    /\ pc[p] = "done" => result[p] \in {"ok", "error", "panic"}
    /\ Returned(p) =>
         /\ result[p] = "error" <=> Assembled(p) = {}
         /\ result[p] = "error" => out[p] = <<>>
         /\ result[p] = "ok" => Len(out[p]) >= 1 /\ Len(out[p]) = Cardinality(Assembled(p))

\* Every pair of the matching group was degenerate.
C6_Witness ==
  /\ Returned(1)
  /\ result[1] = "error"
  /\ Len(calls[1]) = 2
  /\ \A k \in DOMAIN calls[1] : calls[1][k].err

\* C7: both classifiers answer true or false for every nested instruction
\* handed to them, also when its program index is outside the account table.
C7_ClassifiersTotal ==
  \A p \in procs : \A k \in DOMAIN steps[p] :
    LET instr == Groups[steps[p][k].g].Instructions[steps[p][k].i]
    IN  /\ isRaydiumTransfer(instr, ctx.AccountKeys) \in {"true", "false"}
        /\ isRaydiumTransferChecked(instr, ctx.AccountKeys) \in {"true", "false"}
        /\ panicAt[p] \notin {"isRaydiumTransfer", "isRaydiumTransferChecked"}

\* C8: the TransactionContext, the storage behind its pre-balance slice
\* included, is never written, so two calls on one context never write the
\* same location.
C8_ContextReadOnly ==
  /\ ctx = ctx0
  /\ \A p \in procs : writes[p] = {}
  /\ \A p, q \in procs : p # q => writes[p] \cap writes[q] = {}

\* C9: a decoded plain transfer carries the mint of the first balance, pre
\* balances first and post balances after them, whose account is its source
\* or destination; with no such balance no TokenInfo is produced and the
\* transfer fails as unresolved.
AllBalances == CallerPre \o ctx0.PostTokenBalances
AccountMatch(instr) ==
  {j \in DOMAIN AllBalances :
     /\ AllBalances[j].AccountIndex \in DOMAIN ctx0.AccountKeys
     /\ ctx0.AccountKeys[AllBalances[j].AccountIndex]
          \in {ctx0.AccountKeys[instr.Accounts[1]], ctx0.AccountKeys[instr.Accounts[2]]}}
C9_PlainTransferMint ==
  \A p \in procs : \A k \in DOMAIN steps[p] :
    LET e == steps[p][k]
        instr == Groups[e.g].Instructions[e.i]
        M == AccountMatch(instr)
    IN  isRaydiumTransfer(instr, ctx0.AccountKeys) = "true" =>
          /\ e.kind = "ok" => (M # {} /\ e.tok.Mint = AllBalances[Min(M)].Mint)
          /\ M = {} => e.kind = "err"

\* A pre balance and a post balance both name an account of the transfer,
\* with different mints; the pre balance's mint is the one decoded.
C9_Witness ==
  \E k \in DOMAIN steps[1] :
    LET e == steps[1][k]
        instr == Groups[e.g].Instructions[e.i]
        M == AccountMatch(instr)
    IN  /\ isRaydiumTransfer(instr, ctx0.AccountKeys) = "true"
        /\ e.kind = "ok"
        /\ Min(M) <= ctx0.PreLen
        /\ \E j \in M : j > ctx0.PreLen /\ AllBalances[j].Mint # e.tok.Mint
        /\ e.tok.Mint = CallerPre[Min(M)].Mint

\* C10: both transfers of every pair come from one group, in order, and
\* that group carries the outer instruction's tag; the swap records are those
\* of the assembled pairs in encounter order.
Before(a, b) == a[1] < b[1] \/ (a[1] = b[1] /\ a[2] < b[2])
C10_PerGroupAccumulator ==
  \A p \in procs :
    /\ \A k \in DOMAIN calls[p] :
         LET e == calls[p][k]
         IN  /\ e.src1[1] = e.g /\ e.src2[1] = e.g
             /\ e.src1[2] < e.src2[2]
             /\ Matching(p, e.g)
    /\ \A k, m \in DOMAIN calls[p] :
         k < m => Before(calls[p][k].src2, calls[p][m].src1)
    /\ LET ok == SelectSeq(calls[p], LAMBDA e : ~e.err)
       IN  /\ swaps[p] = [k \in DOMAIN ok |-> ok[k].swap]
           /\ result[p] = "ok" => out[p] = swaps[p]

\* A trailing transfer of one matching group is followed by a later
\* matching group that assembles a pair of its own.
C10_Witness ==
  /\ Returned(1)
  /\ Len(Groups) >= 2
  /\ Matching(1, 1) /\ Matching(1, 2)
  /\ Len(DecodedIn(1, 1)) = 1
  /\ Len(DecodedIn(1, 2)) = 2
  /\ Len(out[1]) = 1
  /\ calls[1][1].g = 2
====
